---- MODULE Spec2Model ----
(***************************************************************************)
(* State-machine model of the vscode-github-status extension.              *)
(*                                                                         *)
(*   src/src/extension.ts   module state (interval, gitHubService,         *)
(*                          isActive, config) and the command handlers     *)
(*   src/unnamed/part_000   the GitHub service class (activity tracking,   *)
(*                          idle detection, updateStatus, setIdle,         *)
(*                          setDefault, the emoji catalog and its cache)   *)
(*                                                                         *)
(* Time is counted in units of 1/UnitsPerMinute minute, so that moment's   *)
(* truncating diff(..., "minutes") is a real conversion.  Every handler is *)
(* one action up to its first await on the status sink; the part after the *)
(* await is the action PushDone of the pending call.  The token is taken   *)
(* as configured and a workspace folder as open, so activate() constructs  *)
(* a service that has received its token.  With an emoji configured        *)
(* updateStatus reaches the sink call without suspending; with none it     *)
(* suspends in the emoji prompt first (Answer).  Spec is the synchronizer  *)
(* with an emoji configured and no document saved; SpecInterval,           *)
(* SpecCatalog, SpecMessage, SpecPrompt and SpecOffer start from other     *)
(* configurations and add the steps Spec leaves out.                       *)
(***************************************************************************)
EXTENDS Integers, FiniteSets, Sequences, TLC

\* ---------------------------------------------------------------- bounds
MaxTime == 5
MaxCommands == 1
MaxPending == 1
UnitsPerMinute == 2
MaxHours == 40
MaxMinutes == 122

\* configured values of githubstatus.idleTimeout, in minutes
IdleTimeouts == {1, 2}

\* configured values of githubstatus.interval, as the delay handed to
\* setInterval (interval * 60000 ms) counted in units: one minute, and for
\* AnyIntervals also a value below one minute (1 / UnitsPerMinute)
Intervals == {UnitsPerMinute}
AnyIntervals == {1, UnitsPerMinute}

Unset == -1

VARIABLES
  now,            \* wall clock, in units
  settings,       \* the stored configuration (vscode settings)
  config,         \* extension.ts: let config (snapshot taken by getConfiguration)
  svcs,           \* the GitHubService instances constructed so far
  nSvc,           \* number of instances constructed
  gitHubService,  \* extension.ts: let gitHubService (0 = undefined)
  timers,         \* the live setInterval timers
  nTimer,         \* number of timer handles created
  nCmd,           \* number of commands the user has run
  interval,       \* extension.ts: let interval (0 = null)
  isActive,       \* extension.ts: let isActive
  host,           \* "off", "up" once the host has called activate(), "down"
                  \* once it has called deactivate()
  registered,     \* the commands are registered (extension.ts:43-247 reached)
  pending,        \* sink calls in flight, with what their caller does next
  last,           \* the handler that ran last and what it sent to the sink
  deactivated,    \* a deactivation has completed, with no start still in
                  \* flight, and nothing was started since
  sinceIdle,      \* an idle status was sent since the last activity or start
  store,          \* context.globalState: the emoji cache record (two keys)
  loads,          \* loadEmojis of every instance: its position and __emojiCache
  halted          \* "no", or since the last start began deactivate() has run:
                  \* "raced" while that start's first push was in flight,
                  \* "clean" otherwise

catVars == <<store, loads>>

vars == <<now, settings, config, svcs, nSvc, gitHubService, timers, nTimer,
          nCmd, interval, isActive, host, registered, pending, last, deactivated,
          sinceIdle, store, loads, halted>>

\* every instance is constructed by the host's activate() or by a command
SvcIds == 1..(MaxCommands + 1)

\* ------------------------------------------------------------ pure parts

\* moment's a.diff(b, "minutes"): whole minutes, truncated
MinutesDiff(a, b) == (a - b) \div UnitsPerMinute

\* the idle test with the boundary excluded (> for >=)
checkIdle_strict(s, t) == MinutesDiff(t, s.lastActivity) > s.idleTimeout

\* part_000:307-308, the idle test of updateStatus
checkIdle(s, t) == MinutesDiff(t, s.lastActivity) >= s.idleTimeout

\* vscode.workspace.name, and the languageId of a saved document
Workspace == "demo"
Languages == {"typescript"}

\* the duration without the plural
Duration_noPlural(diffN) ==
  IF diffN > 60
  THEN "(" \o ToString(diffN \div 60) \o " hour " \o
       ToString(diffN % 60) \o " minute)"
  ELSE "(" \o ToString(diffN) \o " minute)"

\* part_000:326-335, diff for diffN whole minutes
Duration(diffN) ==
  IF diffN > 60
  THEN LET hours == diffN \div 60
           minutes == diffN % 60
       IN "(" \o ToString(hours) \o " hour" \o (IF hours > 1 THEN "s" ELSE "") \o
          " " \o ToString(minutes) \o " minute" \o
          (IF minutes > 1 THEN "s" ELSE "") \o ")"
  ELSE "(" \o ToString(diffN) \o " minute" \o (IF diffN > 1 THEN "s" ELSE "") \o ")"

\* part_000:342, the message of an active status; language "" is undefined
Message(workspace, language, diff) ==
  "Working on " \o workspace \o
  (IF language # "" THEN " in " \o language ELSE "") \o
  (IF diff # "" THEN " for " \o diff ELSE "")

\* part_000:362
IdleMessage == "Idle - Away from keyboard"

\* part_000:50-59 and field initialisers 39-48; elapsed and message keep the
\* diffN and the message of the latest push
NewService ==
  [made |-> TRUE, lastActivity |-> now, isIdle |-> FALSE,
   start |-> Unset, idleTimeout |-> settings.idleTimeout,
   expires |-> settings.interval, elapsed |-> Unset,
   language |-> "", message |-> ""]

NoService ==
  [made |-> FALSE, lastActivity |-> 0, isIdle |-> FALSE,
   start |-> Unset, idleTimeout |-> 0, expires |-> 0, elapsed |-> Unset,
   language |-> "", message |-> ""]

\* part_000:319-344, the active branch of updateStatus: the session start is
\* set on the first push, later pushes report the minutes since it
ActivePush(s, t) ==
  IF s.start = Unset
  THEN [s EXCEPT !.start = t, !.elapsed = 0,
                 !.message = Message(Workspace, s.language, "")]
  ELSE [s EXCEPT !.elapsed = MinutesDiff(t, s.start),
                 !.message = Message(Workspace, s.language,
                                     Duration(MinutesDiff(t, s.start)))]

\* part_000:308-311 with 355-365, the idle branch
IdlePush(s) == [s EXCEPT !.isIdle = TRUE, !.message = IdleMessage]

\* updateStatus without the early return of part_000:315-317
updateStatus_pushesWhileIdle(s, t) ==
  IF checkIdle(s, t) /\ ~s.isIdle
  THEN [svc |-> IdlePush(s), push |-> "idle", arm |-> FALSE]
  ELSE [svc |-> ActivePush(s, t), push |-> "active", arm |-> s.start = Unset]

\* updateStatus without the test of part_000:319: every call starts a session
updateStatus_restartsSession(s, t) ==
  IF checkIdle(s, t) /\ ~s.isIdle
  THEN [svc |-> IdlePush(s), push |-> "idle", arm |-> FALSE]
  ELSE IF s.isIdle
  THEN [svc |-> s, push |-> "none", arm |-> FALSE]
  ELSE [svc |-> ActivePush([s EXCEPT !.start = Unset], t),
        push |-> "active", arm |-> s.start = Unset]

\* part_000:302-344, updateStatus up to the sink call: the new instance state,
\* what is sent to the sink, and whether setInterval was called
updateStatus(s, t) ==
  IF checkIdle(s, t) /\ ~s.isIdle
  THEN [svc |-> IdlePush(s), push |-> "idle", arm |-> FALSE]
  ELSE IF s.isIdle
  THEN [svc |-> s, push |-> "none", arm |-> FALSE]
  ELSE [svc |-> ActivePush(s, t), push |-> "active", arm |-> s.start = Unset]

\* part_000:285-300, updateStatus from its call: with an emoji configured it
\* runs on to the sink call, with none it opens the prompt and suspends
beginUpdateStatus(s, t) ==
  IF settings.emoji THEN updateStatus(s, t)
  ELSE [svc |-> s, push |-> "prompt", arm |-> FALSE]

\* part_000:373-377
resetActivity(s, t) ==
  [s EXCEPT !.lastActivity = t, !.isIdle = FALSE, !.start = Unset]

\* onActivity without part_000:102-108: the idle flag survives the activity
onActivity_keepsIdle(s, t) ==
  [svc |-> [s EXCEPT !.lastActivity = t], push |-> "none", arm |-> FALSE]

\* onActivity that records the event only on the resume path
onActivity_onlyWhenIdle(s, t) ==
  IF s.isIdle
  THEN beginUpdateStatus([s EXCEPT !.lastActivity = t, !.isIdle = FALSE], t)
  ELSE [svc |-> s, push |-> "none", arm |-> FALSE]

\* part_000:100-109
\* a resume that records the activity but leaves the instance idle
onActivity_staysIdle(s, t) ==
  IF s.isIdle
  THEN beginUpdateStatus([s EXCEPT !.lastActivity = t], t)
  ELSE [svc |-> [s EXCEPT !.lastActivity = t], push |-> "none", arm |-> FALSE]

onActivity(s, t) ==
  IF s.isIdle
  THEN beginUpdateStatus([s EXCEPT !.lastActivity = t, !.isIdle = FALSE], t)
  ELSE [svc |-> [s EXCEPT !.lastActivity = t], push |-> "none", arm |-> FALSE]

\* part_000:321-324, the timer armed by updateStatus for instance i
NewTimer(id, i, s) ==
  [id |-> id, svc |-> i, due |-> now + s.expires]

\* a call in flight: who awaits it, the timer handle its updateStatus
\* returns, what was sent, and the default pushes of its deactivation so far.
\* For an updateStatus suspended before the sink call, push is "prompt" (the
\* emoji prompt is open) or "save" (the selected emoji is being saved), svc is
\* the instance it runs on and kind is "resume" when onActivity called it; svc
\* is 0 for a sink call.  Prompts of the same caller on the same instance
\* that are open together are kept as one
Call(kind, i, ret, push, n) ==
  [kind |-> kind, svc |-> i, ret |-> ret, push |-> push, n |-> n,
   offered |-> {}]

Suspended(p) == p.push \in {"prompt", "save"}

\* part_000:240-242: the catalog of an instance whose load is l
getAvailableEmojis(l) == l.cache

\* part_000:244-280, selectEmoji called by the updateStatus of call p: the
\* names of the catalog as it is at the call are the items of the quick pick
selectEmoji(p, l) ==
  IF p.push = "prompt"
  THEN [p EXCEPT !.offered = getAvailableEmojis(l).names]
  ELSE p

\* the handler that ran last: the instance it ran on (timer callbacks), what it
\* sent to the sink (for a returning sink call: what had been sent), whether a
\* deactivation finished in it and how many default statuses that one sent
Last(op, i, push, fin, n) ==
  [op |-> op, svc |-> i, push |-> push, fin |-> fin, n |-> n]

\* the calls whose caller awaits them; a call nobody awaits is tracked only
\* while it is the latest one (its return changes no state)
Awaited == {p \in pending : p.kind # "fire" \/ Suspended(p)}
Track(p) == Awaited \cup {p}

\* whether the sink has received an idle status since the last activity event
\* or explicit start
NoteSink(cur, push) == cur \/ push = "idle"

\* ------------------------------------------------------ the emoji catalog

\* part_000:22
CACHE_EXPIRY_HOURS == 24

UnitsPerHour == 60 * UnitsPerMinute

\* part_000:172, maxAge (in units for milliseconds)
maxAge == CACHE_EXPIRY_HOURS * UnitsPerHour

\* part_000:43, the initial __emojiCache; part_000:142-154, the built-in set;
\* the remote directory as it is at time t (api.github.com/emojis)
EmptyCatalog == [names |-> {}, version |-> 0]
Fallback ==
  [names |-> {"computer", "rocket", "zap", "coffee", "fire", "house"},
   version |-> 0]
Directory(t) ==
  [names |-> {"computer", "rocket", "zap", "coffee", "fire", "house", "zzz"},
   version |-> t]

\* the cache store with nothing stored
NoStore ==
  [hasEntries |-> FALSE, entries |-> EmptyCatalog, stamp |-> Unset]

\* a cache that never expires
expired_never(cacheAge) == FALSE

\* part_000:174
expired(cacheAge) == cacheAge > maxAge

\* part_000:158-183: what getCachedEmojis returns at time t (hit: entries,
\* otherwise null) and the cacheAge it computed, if it computed one
getCachedEmojis(st, t, ok) ==
  IF ~ok
  THEN [hit |-> FALSE, entries |-> EmptyCatalog, age |-> Unset]
  ELSE IF ~st.hasEntries \/ st.stamp = Unset \/ st.stamp = 0
  THEN [hit |-> FALSE, entries |-> EmptyCatalog, age |-> Unset]
  ELSE IF expired(t - st.stamp)
  THEN [hit |-> FALSE, entries |-> EmptyCatalog, age |-> t - st.stamp]
  ELSE [hit |-> TRUE, entries |-> st.entries, age |-> t - st.stamp]

\* part_000:111-126, loadEmojis called by the constructor, up to its first
\* suspension: the cache is read at once; on a hit the entries are installed
\* next, otherwise the remote directory is called.  age and seen keep the
\* cacheAge and the timestamp the read worked with, remote whether the
\* directory was called
BeginLoad(st, t, ok) ==
  LET c == getCachedEmojis(st, t, ok)
      seen == IF c.age = Unset THEN Unset ELSE st.stamp
  IN IF c.hit /\ c.entries.names # {}
     THEN [pc |-> "cached", cache |-> EmptyCatalog, got |-> c.entries,
           age |-> c.age, seen |-> seen, remote |-> FALSE, stamp |-> Unset]
     ELSE [pc |-> "fetch", cache |-> EmptyCatalog, got |-> EmptyCatalog,
           age |-> c.age, seen |-> seen, remote |-> TRUE, stamp |-> Unset]

NoLoad ==
  [pc |-> "none", cache |-> EmptyCatalog, got |-> EmptyCatalog,
   age |-> Unset, seen |-> Unset, remote |-> FALSE, stamp |-> Unset]

\* ---------------------------------------------------------------- Init

\* the state before the host activates the extension, for the configured
\* values S
InitWith(S, t0) ==
  /\ now = t0
  /\ settings \in S
  /\ config = [blacklist |-> settings.blacklist]
  /\ svcs = [i \in SvcIds |-> NoService]
  /\ nSvc = 0
  /\ gitHubService = 0
  /\ timers = {}
  /\ nTimer = 0
  /\ nCmd = 0
  /\ interval = 0
  /\ isActive = FALSE
  /\ host = "off"
  /\ registered = FALSE
  /\ pending = {}
  /\ last = Last("init", 0, "none", FALSE, 0)
  /\ deactivated = FALSE
  /\ sinceIdle = FALSE
  /\ store = NoStore
  /\ loads = [i \in SvcIds |-> NoLoad]
  /\ halted = "no"

Init ==
  InitWith([idleTimeout : IdleTimeouts, interval : Intervals,
            hasDefault : BOOLEAN, blacklist : BOOLEAN, emoji : {TRUE}], 0)

\* -------------------------------------------------------------- actions

Room == Cardinality(Awaited) < MaxPending

\* a start or an activate command is still waiting for its first sink call
Starting == \E p \in pending : p.kind \in {"start", "activate"}

\* the user runs a command from the menu or the palette; the commands exist
\* between their registration and the host's deactivate()
Command == registered /\ host = "up" /\ nCmd < MaxCommands /\ nCmd' = nCmd + 1

\* extension.ts:14-40, activate(context) up to its await, under snapshot cfg
activate(cfg) ==
  IF cfg.blacklist
  THEN /\ isActive' = FALSE
       /\ last' = Last("start", 0, "none", FALSE, 0)
       /\ UNCHANGED <<svcs, nSvc, gitHubService, timers, nTimer, pending,
                      sinceIdle, deactivated, loads, halted>>
  ELSE /\ Room
       /\ LET i == nSvc + 1
              r == beginUpdateStatus(NewService, now)
              id == nTimer + 1
          IN /\ nSvc' = i
             /\ gitHubService' = i
             /\ svcs' = [svcs EXCEPT ![i] = r.svc]
             /\ \E ok \in BOOLEAN :
                  loads' = [loads EXCEPT ![i] = BeginLoad(store, now, ok)]
             /\ timers' = IF r.arm THEN timers \cup {NewTimer(id, i, r.svc)}
                          ELSE timers
             /\ nTimer' = IF r.arm THEN id ELSE nTimer
             /\ pending' = pending \cup
                  {selectEmoji(Call("start", IF r.push = "prompt" THEN i ELSE 0,
                                    IF r.arm THEN id ELSE 0, r.push, 0),
                               loads'[i])}
             /\ last' = Last("start", i, r.push, FALSE, 0)
             /\ sinceIdle' = NoteSink(FALSE, r.push)
             /\ deactivated' = FALSE
             /\ halted' = "no"
       /\ UNCHANGED isActive

\* the host activates the extension
ExtStart ==
  /\ host = "off"
  /\ host' = "up"
  /\ activate(config)
  /\ UNCHANGED <<now, settings, config, interval, registered, nCmd, store>>

\* extension.ts:196-203, githubstatus.restart
Restart ==
  /\ Command
  /\ config' = [blacklist |-> settings.blacklist]
  /\ activate(config')
  /\ UNCHANGED <<now, settings, interval, host, registered, store>>

\* extension.ts:206-219, githubstatus.activate up to its await
ActivateCmd ==
  /\ Command
  /\ gitHubService # 0
  /\ Room
  /\ LET i == gitHubService
         r == beginUpdateStatus(resetActivity(svcs[i], now), now)
         id == nTimer + 1
     IN /\ svcs' = [svcs EXCEPT ![i] = r.svc]
        /\ timers' = IF r.arm THEN timers \cup {NewTimer(id, i, r.svc)} ELSE timers
        /\ nTimer' = IF r.arm THEN id ELSE nTimer
        /\ pending' = pending \cup
             {selectEmoji(Call("activate", IF r.push = "prompt" THEN i ELSE 0,
                               IF r.arm THEN id ELSE 0, r.push, 0),
                          loads[i])}
        /\ last' = Last("activate", i, r.push, FALSE, 0)
        /\ sinceIdle' = NoteSink(FALSE, r.push)
  /\ deactivated' = FALSE
  /\ halted' = "no"
  /\ UNCHANGED <<now, settings, config, nSvc, gitHubService, interval, isActive,
                 host, registered, catVars>>

\* extension.ts:254-257, deactivate(): the timer held in interval is cleared
ClearedTimers == {t \in timers : t.id # interval}

\* extension.ts:261-263 with part_000:379-385: deactivate() sends the default
DeactivatePushes == gitHubService # 0 /\ ~isActive /\ settings.hasDefault

\* extension.ts:253-264, deactivate() up to its await, for a caller that does
\* not wait for it
deactivate ==
  /\ timers' = ClearedTimers
  /\ interval' = 0
  /\ halted' = IF Starting THEN "raced" ELSE "clean"
  /\ IF DeactivatePushes
     THEN /\ Room
          /\ pending' = pending \cup {Call("host", 0, 0, "default", 1)}
          /\ last' = Last("deactivate", 0, "default", FALSE, 0)
          /\ UNCHANGED deactivated
     ELSE /\ deactivated' = ~Starting
          /\ last' = Last("deactivate", 0, "none", TRUE, 0)
          /\ UNCHANGED pending

\* extension.ts:222-236, githubstatus.deactivate up to its first await
DeactivateCmd ==
  /\ Command
  /\ timers' = ClearedTimers
  /\ interval' = 0
  /\ halted' = IF Starting THEN "raced" ELSE "clean"
  /\ IF DeactivatePushes
     THEN /\ Room
          /\ pending' = pending \cup {Call("deact1", 0, 0, "default", 1)}
          /\ last' = Last("deactivate", 0, "default", FALSE, 0)
          /\ UNCHANGED <<isActive, deactivated>>
     ELSE IF gitHubService # 0 /\ settings.hasDefault
     THEN /\ Room
          /\ pending' = pending \cup {Call("deact2", 0, 0, "default", 1)}
          /\ last' = Last("deactivate", 0, "default", FALSE, 0)
          /\ UNCHANGED <<isActive, deactivated>>
     ELSE /\ isActive' = FALSE
          /\ deactivated' = ~Starting
          /\ last' = Last("deactivate", 0, "none", TRUE, 0)
          /\ UNCHANGED pending
  /\ UNCHANGED <<now, settings, config, svcs, nSvc, gitHubService, nTimer,
                 host, registered, sinceIdle, catVars>>

\* extension.ts:253-264, deactivate() called by the host, which then disposes
\* of the commands (context.subscriptions, extension.ts:238-247)
HostDeactivate ==
  /\ host = "up"
  /\ host' = "down"
  /\ deactivate
  /\ UNCHANGED <<now, settings, config, svcs, nSvc, gitHubService, nTimer,
                 isActive, registered, sinceIdle, nCmd, catVars>>

\* extension.ts:162-193, githubstatus.toggleBlacklist
ToggleBlacklist ==
  /\ Command
  /\ IF config.blacklist
     THEN /\ settings' = [settings EXCEPT !.blacklist = FALSE]
          /\ config' = [blacklist |-> FALSE]
          /\ activate(config')
          /\ UNCHANGED interval
     ELSE /\ settings' = [settings EXCEPT !.blacklist = TRUE]
          /\ deactivate
          /\ isActive' = FALSE
          /\ UNCHANGED <<config, svcs, nSvc, gitHubService, nTimer, sinceIdle,
                         loads>>
  /\ UNCHANGED <<now, host, registered, store>>

\* part_000:78-97: an editor event reaches the listeners of every instance,
\* which are in state S when they call onActivity
Listeners(S) ==
  /\ nSvc > 0
  /\ LET r == [i \in SvcIds |-> IF S[i].made THEN onActivity(S[i], now)
                                ELSE [svc |-> S[i], push |-> "none", arm |-> FALSE]]
         arming == {i \in SvcIds : r[i].arm}
         rank(i) == Cardinality({j \in arming : j <= i})
         pushing == {i \in SvcIds : r[i].push = "active"}
         prompting == {i \in SvcIds : r[i].push = "prompt"}
     IN /\ svcs' = [i \in SvcIds |-> r[i].svc]
        /\ timers' = timers \cup {NewTimer(nTimer + rank(i), i, r[i].svc) : i \in arming}
        /\ nTimer' = nTimer + Cardinality(arming)
        /\ pending' = (IF pushing = {} THEN pending
                       ELSE Track(Call("fire", 0, 0, "active", 0)))
                        \cup {selectEmoji(Call("resume", i, 0, "prompt", 0), loads[i]) :
                                i \in prompting}
        /\ last' = Last("activity", 0,
                        IF pushing # {} THEN "active"
                        ELSE IF prompting # {} THEN "prompt" ELSE "none",
                        FALSE, 0)
        /\ sinceIdle' = FALSE
  /\ UNCHANGED <<now, settings, config, nSvc, gitHubService, interval, isActive,
                 host, registered, deactivated, nCmd, catVars, halted>>

\* part_000:83-97: a document is edited, the selection, the active editor or
\* the visible range changes
Activity == Listeners(svcs)

\* part_000:78-81: a document is saved; its language is recorded first
Save ==
  \E l \in Languages :
     Listeners([i \in SvcIds |-> IF svcs[i].made
                                 THEN [svcs[i] EXCEPT !.language = l]
                                 ELSE svcs[i]])

\* part_000:321-324: a live timer runs its callback, updateStatus(workspace)
TimerFire(t) ==
  /\ t \in timers
  /\ t.due <= now
  /\ LET i == t.svc
         r == beginUpdateStatus(svcs[i], now)
         id == nTimer + 1
         again == [t EXCEPT !.due = now + svcs[i].expires]
     IN /\ svcs' = [svcs EXCEPT ![i] = r.svc]
        /\ timers' = ((timers \ {t}) \cup {again}) \cup
                       (IF r.arm THEN {NewTimer(id, i, r.svc)} ELSE {})
        /\ nTimer' = IF r.arm THEN id ELSE nTimer
        /\ pending' = IF r.push = "none" THEN pending
                      ELSE IF r.push = "prompt"
                      THEN pending \cup
                             {selectEmoji(Call("fire", i, 0, "prompt", 0), loads[i])}
                      ELSE Track(Call("fire", 0, 0, r.push, 0))
        /\ last' = Last("timer", i, r.push, FALSE, 0)
        /\ sinceIdle' = NoteSink(sinceIdle, r.push)
  /\ UNCHANGED <<now, settings, config, nSvc, gitHubService, interval, isActive,
                 host, registered, deactivated, nCmd, catVars, halted>>

\* the code after the await of call p: extension.ts:33-34 and 43-247 (start),
\* 212-215 (activate), 228-233 (the command's deactivate), 262-264 (deactivate)
Continue(p, ok) ==
  /\ last' = Last(IF ok THEN "returned" ELSE "threw", 0, p.push,
                  p.kind \in {"deact2", "host"}, 
                  IF p.kind \in {"deact2", "host"} THEN p.n ELSE 0)
  /\ CASE p.kind = "start" ->
            /\ interval' = p.ret
            /\ isActive' = TRUE
            /\ registered' = TRUE
            /\ pending' = pending \ {p}
            /\ UNCHANGED deactivated
       [] p.kind = "activate" ->
            /\ interval' = p.ret
            /\ isActive' = TRUE
            /\ pending' = pending \ {p}
            /\ UNCHANGED <<registered, deactivated>>
       [] p.kind = "deact1" ->
            /\ pending' = (pending \ {p}) \cup {Call("deact2", 0, 0, "default", p.n + 1)}
            /\ UNCHANGED <<interval, isActive, registered, deactivated>>
       [] p.kind = "deact2" ->
            /\ isActive' = FALSE
            /\ deactivated' = ~Starting
            /\ pending' = pending \ {p}
            /\ UNCHANGED <<interval, registered>>
       [] p.kind = "host" ->
            /\ deactivated' = ~Starting
            /\ pending' = pending \ {p}
            /\ UNCHANGED <<interval, isActive, registered>>
       [] OTHER ->
            /\ pending' = pending \ {p}
            /\ UNCHANGED <<interval, isActive, registered, deactivated>>

\* a catch block that gives up: on an error the timers are stopped
PushDone_stopsOnError(p, ok) ==
  /\ p \in pending
  /\ ~Suspended(p)
  /\ Continue(p, ok)
  /\ timers' = IF ok THEN timers ELSE {}
  /\ UNCHANGED <<now, settings, config, svcs, nSvc, gitHubService, nTimer,
                 host, sinceIdle, nCmd, catVars, halted>>

\* part_000:346-352, 366-370, 395-399: the sink call of p returns (ok) or
\* throws (~ok); the catch logs the error and the caller continues
PushDone(p, ok) ==
  /\ p \in pending
  /\ ~Suspended(p)
  /\ Continue(p, ok)
  /\ UNCHANGED <<now, settings, config, svcs, nSvc, gitHubService, timers, nTimer,
                 host, sinceIdle, nCmd, catVars, halted>>

\* part_000:302-344 for a call p that was suspended: updateStatus goes on to
\* the sink call with the clock and the fields as they are now
Proceed(p) ==
  /\ LET i == p.svc
         r == updateStatus(svcs[i], now)
         id == nTimer + 1
     IN /\ svcs' = [svcs EXCEPT ![i] = r.svc]
        /\ timers' = IF r.arm THEN timers \cup {NewTimer(id, i, r.svc)}
                     ELSE timers
        /\ nTimer' = IF r.arm THEN id ELSE nTimer
        /\ pending' = IF p.kind \in {"fire", "resume"}
                      THEN IF r.push = "none" THEN pending \ {p}
                           ELSE (Awaited \ {p}) \cup {Call("fire", 0, 0, r.push, 0)}
                      ELSE (pending \ {p}) \cup
                             {Call(p.kind, 0, IF r.arm THEN id ELSE 0, r.push, 0)}
        /\ last' = Last("answered", i, r.push, FALSE, 0)
        /\ sinceIdle' = NoteSink(sinceIdle, r.push)
  /\ UNCHANGED <<now, config, nSvc, gitHubService, interval, isActive, host,
                 registered, deactivated, nCmd, catVars, halted>>

\* part_000:292-300: the prompt of call p is answered.  With an emoji picked
\* (one of the items offered) the setting is written next; dismissed,
\* "computer" is used unsaved
Answer(p, picked) ==
  /\ p \in pending
  /\ p.push = "prompt"
  /\ picked => p.offered # {}
  /\ IF picked
     THEN /\ pending' = (pending \ {p}) \cup {[p EXCEPT !.push = "save"]}
          /\ last' = Last("picked", p.svc, "save", FALSE, 0)
          /\ UNCHANGED <<now, settings, config, svcs, nSvc, gitHubService,
                         timers, nTimer, interval, isActive, host, registered,
                         deactivated, sinceIdle, nCmd, catVars, halted>>
     ELSE /\ Proceed(p)
          /\ UNCHANGED settings

\* part_000:296: the write of the emoji setting returns
Saved(p) ==
  /\ p \in pending
  /\ p.push = "save"
  /\ settings' = [settings EXCEPT !.emoji = TRUE]
  /\ Proceed(p)

\* time passes; a timer that is due runs before the clock moves on
Tick ==
  /\ now < MaxTime
  /\ \A t \in timers : t.due > now
  /\ now' = now + 1
  /\ last' = Last("tick", 0, "none", FALSE, 0)
  /\ UNCHANGED <<settings, config, svcs, nSvc, gitHubService, timers, nTimer,
                 interval, isActive, host, registered, pending, deactivated,
                 sinceIdle, nCmd, catVars, halted>>

\* ---- the steps of loadEmojis after its first suspension, for instance i

LoadStep(i, pc, ok) ==
  /\ loads[i].pc = pc
  /\ last' = Last("load", i, IF ok THEN "none" ELSE "threw", FALSE, 0)
  /\ UNCHANGED <<now, settings, config, svcs, nSvc, gitHubService, timers,
                 nTimer, nCmd, interval, isActive, host, registered, pending,
                 deactivated, sinceIdle, halted>>

\* loadEmojis of a load l returns: its locals (the entries and the timestamp
\* read, the timestamp to store) are gone
Returned(l) ==
  [l EXCEPT !.pc = "done", !.got = EmptyCatalog, !.seen = Unset, !.stamp = Unset]

\* part_000:115-123: the cached entries become the catalog
LoadCached(i) ==
  /\ LoadStep(i, "cached", TRUE)
  /\ loads' = [loads EXCEPT ![i] = Returned([loads[i] EXCEPT !.cache = loads[i].got])]
  /\ UNCHANGED store

\* part_000:126-127 and 139-155: fetch resolves with a success response
\* ("ok"), resolves with another response ("notok"), or rejects ("error")
FetchResponds(i, outcome) ==
  /\ LoadStep(i, "fetch", TRUE)
  /\ loads' = CASE outcome = "ok" -> [loads EXCEPT ![i].pc = "json"]
                [] outcome = "notok" -> [loads EXCEPT ![i] = Returned(loads[i])]
                [] OTHER ->
                     [loads EXCEPT ![i] = Returned([loads[i] EXCEPT !.cache = Fallback])]
  /\ UNCHANGED store

\* part_000:128-137 and 139-155: response.json() resolves with the directory
\* (the catalog is set and cacheEmojis begins) or rejects on a malformed body
JsonParsed(i, ok) ==
  /\ LoadStep(i, "json", TRUE)
  /\ loads' = IF ok
               THEN [loads EXCEPT ![i].cache = Directory(now), ![i].pc = "store1"]
               ELSE [loads EXCEPT ![i] = Returned([loads[i] EXCEPT !.cache = Fallback])]
  /\ UNCHANGED store

\* part_000:189-193: update(EMOJI_CACHE_KEY) returns or throws; after it the
\* timestamp to store is taken (Date.now())
EntriesStored(i, ok) ==
  /\ LoadStep(i, "store1", ok)
  /\ IF ~ok
     THEN /\ loads' = [loads EXCEPT ![i] = Returned(loads[i])]
          /\ UNCHANGED store
     ELSE /\ store' = [store EXCEPT !.hasEntries = TRUE,
                                    !.entries = loads[i].cache]
          /\ loads' = [loads EXCEPT ![i].pc = "store2", ![i].stamp = now]

\* part_000:190-193: update(EMOJI_CACHE_TIMESTAMP_KEY) returns or throws
StampStored(i, ok) ==
  /\ LoadStep(i, "store2", ok)
  /\ loads' = [loads EXCEPT ![i] = Returned(loads[i])]
  /\ IF ~ok
     THEN UNCHANGED store
     ELSE store' = [store EXCEPT !.stamp = loads[i].stamp]

\* hours pass (Date.now() of part_000:170 and 190)
TickHours == 12

HoursPass ==
  /\ host = "up"
  /\ now + TickHours * UnitsPerHour <= MaxHours * UnitsPerHour
  /\ now' = now + TickHours * UnitsPerHour
  /\ last' = Last("tick", 0, "none", FALSE, 0)
  /\ UNCHANGED <<settings, config, svcs, nSvc, gitHubService, timers, nTimer,
                 interval, isActive, host, registered, pending, deactivated,
                 sinceIdle, nCmd, catVars, halted>>

LoadsCached == \E i \in SvcIds : LoadCached(i)
FetchReturns == \E i \in SvcIds : FetchResponds(i, "ok")
FetchRefused == \E i \in SvcIds : FetchResponds(i, "notok")
FetchFails == \E i \in SvcIds : FetchResponds(i, "error")
JsonReturns == \E i \in SvcIds : JsonParsed(i, TRUE)
JsonThrows == \E i \in SvcIds : JsonParsed(i, FALSE)
StoresEntries == \E i \in SvcIds : EntriesStored(i, TRUE)
StoreEntriesThrows == \E i \in SvcIds : EntriesStored(i, FALSE)
StoresStamp == \E i \in SvcIds : StampStored(i, TRUE)
StoreStampThrows == \E i \in SvcIds : StampStored(i, FALSE)

\* a whole minute passes while the extension runs
MinutePasses ==
  /\ host = "up"
  /\ now + UnitsPerMinute <= MaxMinutes * UnitsPerMinute
  /\ \A t \in timers : t.due > now
  /\ now' = now + UnitsPerMinute
  /\ last' = Last("tick", 0, "none", FALSE, 0)
  /\ UNCHANGED <<settings, config, svcs, nSvc, gitHubService, timers, nTimer,
                 interval, isActive, host, registered, pending, deactivated,
                 sinceIdle, nCmd, catVars, halted>>

Fire == \E t \in timers : TimerFire(t)
SinkReturns == \E p \in pending : PushDone(p, TRUE)
SinkThrows == \E p \in pending : PushDone(p, FALSE)

Next ==
  \/ ExtStart
  \/ Restart
  \/ ActivateCmd
  \/ DeactivateCmd
  \/ HostDeactivate
  \/ ToggleBlacklist
  \/ Activity
  \/ Fire
  \/ SinkReturns
  \/ SinkThrows
  \/ Tick

Spec == Init /\ [][Next]_vars

\* the push timer under any configured interval: the extension is started
\* and runs without commands
InitInterval ==
  InitWith([idleTimeout : IdleTimeouts, interval : AnyIntervals,
            hasDefault : {FALSE}, blacklist : {FALSE}, emoji : {TRUE}], 0)

NextInterval ==
  \/ ExtStart
  \/ Activity
  \/ Fire
  \/ SinkReturns
  \/ SinkThrows
  \/ Tick

SpecInterval == InitInterval /\ [][NextInterval]_vars

\* the emoji catalog: the extension is started and restarted over two days
\* (the clock starts one hour after the epoch)
InitCatalog ==
  InitWith([idleTimeout : {2}, interval : Intervals,
            hasDefault : {FALSE}, blacklist : {FALSE}, emoji : {TRUE}],
           UnitsPerHour)

NextCatalog ==
  \/ ExtStart
  \/ Restart
  \/ SinkReturns
  \/ LoadsCached
  \/ FetchReturns
  \/ FetchRefused
  \/ FetchFails
  \/ JsonReturns
  \/ JsonThrows
  \/ StoresEntries
  \/ StoreEntriesThrows
  \/ StoresStamp
  \/ StoreStampThrows
  \/ HoursPass

SpecCatalog == InitCatalog /\ [][NextCatalog]_vars

\* the status messages of a long session: the extension is started, documents
\* are saved and the pushes are made minute by minute; the idle timeout is
\* longer than the session
InitMessage ==
  InitWith([idleTimeout : {MaxMinutes + 1}, interval : Intervals,
            hasDefault : {FALSE}, blacklist : {FALSE}, emoji : {TRUE}], 0)

NextMessage ==
  \/ ExtStart
  \/ Save
  \/ Fire
  \/ SinkReturns
  \/ MinutePasses

SpecMessage == InitMessage /\ [][NextMessage]_vars

\* The emoji prompt: the emoji may be unset and the user answers the prompt
\* whenever they like; no command is run, so there is one instance.  Its
\* catalog load ends when the fetch is refused or fails (SpecCatalog and
\* SpecOffer have the other ways).

PicksEmoji == \E p \in pending : Answer(p, TRUE)

DismissesPrompt == \E p \in pending : Answer(p, FALSE)

EmojiSaved == \E p \in pending : Saved(p)

InitPrompt ==
  InitWith([idleTimeout : IdleTimeouts, interval : Intervals,
            hasDefault : {FALSE}, blacklist : {FALSE}, emoji : BOOLEAN], 0)

NextPrompt ==
  \/ ExtStart
  \/ Activity
  \/ Fire
  \/ PicksEmoji
  \/ DismissesPrompt
  \/ EmojiSaved
  \/ SinkReturns
  \/ SinkThrows
  \/ Tick
  \/ HostDeactivate
  \/ FetchRefused
  \/ FetchFails

SpecPrompt == InitPrompt /\ [][NextPrompt]_vars

\* The list the prompt offers: no emoji is configured, the clock stands
\* still, and starts, restarts and the activate command open the prompt
\* while the catalog loads run.

InitOffer ==
  InitWith([idleTimeout : {2}, interval : Intervals,
            hasDefault : {FALSE}, blacklist : {FALSE}, emoji : {FALSE}],
           UnitsPerHour)

NextOffer ==
  \/ ExtStart
  \/ Restart
  \/ ActivateCmd
  \/ PicksEmoji
  \/ DismissesPrompt
  \/ EmojiSaved
  \/ SinkReturns
  \/ LoadsCached
  \/ FetchReturns
  \/ FetchRefused
  \/ FetchFails
  \/ JsonReturns
  \/ JsonThrows
  \/ StoresEntries
  \/ StoreEntriesThrows
  \/ StoresStamp
  \/ StoreStampThrows

SpecOffer == InitOffer /\ [][NextOffer]_vars

\* ---------------------------------------------------------------- claims

Made == {i \in SvcIds : svcs[i].made}
GapUnits(i) == now - svcs[i].lastActivity
ThresholdUnits(i) == svcs[i].idleTimeout * UnitsPerMinute

\* C1: after any sequence of start, restart, activate, deactivate and activity
\* events at most one periodic push timer is live.
C1_AtMostOneTimer == Cardinality(timers) <= 1

\* C2: once a deactivation has completed (after the starts before it had
\* completed, and with nothing started after it), no timer callback sends a
\* status to the sink.
C2_NoTimerPushAfterDeactivate ==
  ~(deactivated /\ last.op = "timer" /\ last.push # "none")

\* C3 as claimed: no push timer is live for an instance while it is idle.
C3_NoTimerWhileIdle ==
  \A i \in Made : svcs[i].isIdle => ~\E t \in timers : t.svc = i

\* C3 as amended: the timer callback that makes the Active to Idle transition
\* cancels no timer, and a timer callback that runs on an idle instance sends
\* nothing to the sink, changes no instance and cancels no timer.
C3_IdleSuppressesTimerPushes ==
  [][last'.op = "timer" =>
       /\ last'.push = "idle" => {t.id : t \in timers'} = {t.id : t \in timers}
       /\ svcs[last'.svc].isIdle =>
            /\ last'.push = "none"
            /\ svcs' = svcs
            /\ {t.id : t \in timers'} = {t.id : t \in timers}]_vars

C3_Witness ==
  /\ last.op = "timer" /\ last.push = "none"
  /\ svcs[last.svc].isIdle
  /\ \E t \in timers : t.svc = last.svc

\* C4: once an idle status has been sent, no timer callback sends a further
\* status (a second idle status or an active one) until an activity event or
\* an explicit start occurs.
C4_OneIdleStatusPerPeriod ==
  [][(sinceIdle /\ last'.op = "timer") => last'.push = "none"]_vars

\* C5: an activity event that arrives while an instance is idle clears isIdle
\* and resets the start of the work session to the time of the event.
C5_ResumeResetsSession ==
  [][last'.op = "activity" =>
       \A i \in Made : svcs[i].isIdle =>
          (~svcs'[i].isIdle /\ svcs'[i].start = now)]_vars

\* C6: a timer callback never changes the start of the work session, and while
\* an instance stays active in the same session the elapsed minutes it reports
\* never decrease.
C6_ScheduledPushKeepsSession ==
  [][\A i \in Made :
       /\ last'.op = "timer" => svcs'[i].start = svcs[i].start
       /\ (/\ svcs[i].start # Unset /\ svcs'[i].start = svcs[i].start
           /\ ~svcs[i].isIdle /\ ~svcs'[i].isIdle)
          => svcs'[i].elapsed >= svcs[i].elapsed]_vars

C6_Witness ==
  /\ last.op = "timer" /\ last.push = "active"
  /\ svcs[last.svc].elapsed >= 1

\* C7: a sink call that throws changes no instance state (isIdle, start of the
\* work session) and leaves every live timer live and due as before.
C7_SinkFailureSwallowed ==
  [][last'.op = "threw" => (svcs' = svcs /\ timers' = timers)]_vars

C7_Witness ==
  /\ last.op = "threw" /\ last.push = "active"
  /\ \E t \in timers : t.due > now

\* C8: the idle test made by a timer callback on an instance that is not idle
\* is true iff the time since the last activity is at least idleTimeout
\* minutes, the boundary included.
C8_IdleCheckBoundary ==
  [][\A i \in Made :
       (last'.op = "timer" /\ last'.svc = i /\ ~svcs[i].isIdle) =>
          (svcs'[i].isIdle <=> GapUnits(i) >= ThresholdUnits(i))]_vars

C8_Witness ==
  /\ last.op = "timer" /\ last.push = "idle"
  /\ GapUnits(last.svc) = ThresholdUnits(last.svc)

\* C9 as claimed: isIdle is true iff no activity has been observed for at least
\* idleTimeout minutes (looked at when no timer callback is due, so that every
\* scheduled idle test up to now has been made).
C9_IdleIffNoActivity ==
  (\A t \in timers : t.due > now) =>
     \A i \in Made : svcs[i].isIdle <=> GapUnits(i) >= ThresholdUnits(i)

\* C9 as amended: if isIdle is true then no activity has been observed for at
\* least idleTimeout minutes.
C9_IdleImpliesNoActivity ==
  \A i \in Made : svcs[i].isIdle => GapUnits(i) >= ThresholdUnits(i)

C9_Witness ==
  \E i \in Made : svcs[i].isIdle /\ last.op = "tick"

\* C10: a finished deactivation has cleared the timer handle and has sent the
\* default status exactly once if a default message is configured, and not at
\* all if none is.
C10_DeactivationSendsDefaultOnce ==
  (last.fin /\ gitHubService # 0) =>
     /\ interval = 0
     /\ last.n = IF settings.hasDefault THEN 1 ELSE 0

\* C11: every timer that is armed or re-armed is due at least one minute
\* later, for every configured interval, the values below 1 included.
C11_PeriodAtLeastOneMinute ==
  [][\A t \in timers' : t \notin timers => t.due - now >= UnitsPerMinute]_vars

Loaded == {i \in SvcIds : loads[i].pc = "done"}

\* C12: a finished load whose fetch of the directory was made and did not
\* deliver the directory (rejected, non-success response or malformed body)
\* has left the built-in fallback set in the catalog, never the empty one.
C12_FailedLoadFallsBack ==
  \A i \in Loaded :
     (loads[i].remote /\ loads[i].cache.version = 0) => loads[i].cache = Fallback

\* the cache record was populated: both keys are stored
Populated == store.hasEntries /\ store.stamp > 0

\* the step in which instance i is constructed and its load begins
Begins(i) == loads[i].pc = "none" /\ loads'[i].pc # "none"

\* in that step the read of the populated cache store did not throw: the
\* load has computed the age of the record
ReadOk(i) == loads'[i].age # Unset

\* C13 as claimed: once the cache is populated, every load that begins within
\* 24 hours of the stored timestamp takes the stored entries without calling
\* the remote directory, and every load that begins more than 24 hours after
\* it calls the remote directory and has stored a later timestamp when it ends.
C13_CachedFor24Hours ==
  [][\A i \in SvcIds :
       /\ (Begins(i) /\ Populated /\ now - store.stamp < maxAge) =>
             (~loads'[i].remote /\ loads'[i].got = store.entries)
       /\ (Begins(i) /\ Populated /\ now - store.stamp > maxAge) =>
             loads'[i].remote
       /\ (loads[i].age # Unset /\ loads[i].age > maxAge /\
           loads[i].pc # "done" /\ loads'[i].pc = "done") =>
             store'.stamp - loads[i].seen > maxAge]_vars

\* C13 as amended: the same for the loads whose read of the cache store does
\* not fail, and the later timestamp for the loads whose fetch delivers the
\* directory and whose two writes to the cache store succeed.
C13_CachedFor24HoursUnlessFaults ==
  [][\A i \in SvcIds :
       /\ (Begins(i) /\ Populated /\ ReadOk(i) /\ now - store.stamp < maxAge) =>
             (~loads'[i].remote /\ loads'[i].got = store.entries)
       /\ (loads[i].pc = "cached" /\ loads'[i].pc = "done") =>
             loads'[i].cache = loads[i].got
       /\ (Begins(i) /\ Populated /\ now - store.stamp > maxAge) =>
             loads'[i].remote
       /\ (loads[i].age # Unset /\ loads[i].age > maxAge /\
           loads[i].pc = "store2" /\ loads'[i].pc = "done" /\
           last'.push # "threw") =>
             store'.stamp - loads[i].seen > maxAge]_vars

C13_Witness ==
  \E i \in Loaded :
     /\ loads[i].age # Unset /\ loads[i].age > 0 /\ loads[i].age < maxAge
     /\ ~loads[i].remote
     /\ loads[i].cache = store.entries /\ loads[i].cache.version > 0

\* C14: an activity event sets lastActivity of every instance to the time of
\* the event in the step in which it arrives, whatever sink calls are in
\* flight (no step of the sink is awaited).
C14_ActivityNotBlocked ==
  [][last'.op = "activity" =>
       \A i \in Made : svcs'[i].lastActivity = now]_vars

C14_Witness ==
  /\ last.op = "activity"
  /\ \E p \in pending : p.kind = "start" /\ p.push = "active"
  /\ \E i \in Made :
        /\ i = gitHubService
        /\ svcs[i].start # Unset /\ svcs[i].start < now
        /\ svcs[i].lastActivity = now

\* C15: when deactivate() has run while the first push of a start was in
\* flight and every call has completed, no timer is live and isActive is false.
C15_DeactivateDuringFirstPush ==
  (halted = "raced" /\ pending = {}) => (timers = {} /\ ~isActive)

\* the latest push of instance i was an active one
PushedActive(i) == svcs[i].message # "" /\ svcs[i].message # IdleMessage

\* C16: the message of an active push has the suffix " for (...)" iff the
\* minutes elapsed in the work session at that push are at least 1; in
\* particular no message reports 0 minutes.
C16_SuffixIffOneMinute ==
  \A i \in Made : PushedActive(i) =>
     /\ svcs[i].message # Message(Workspace, svcs[i].language, "")
          <=> svcs[i].elapsed >= 1
     /\ svcs[i].message # Message(Workspace, svcs[i].language, Duration(0))

\* the push made by the start at t = 0, and the scheduled push of that
\* session at t = 2 minutes, with no language observed
FirstPushAt0(i) ==
  /\ last.op = "start" /\ last.svc = i /\ last.push = "active"
  /\ now = 0 /\ svcs[i].language = ""
PushAt2(i) ==
  /\ last.op = "timer" /\ last.svc = i /\ last.push = "active"
  /\ now = 2 * UnitsPerMinute /\ svcs[i].start = 0 /\ svcs[i].language = ""

\* C17 as claimed: the first push at t = 0 has the message "Working on demo"
\* and the push at t = 2 minutes the message "Working on demo (2 minutes)".
C17_DemoMessages ==
  \A i \in Made :
     /\ FirstPushAt0(i) => svcs[i].message = "Working on demo"
     /\ PushAt2(i) => svcs[i].message = "Working on demo (2 minutes)"

\* C17 as amended: the push at t = 2 minutes has the message
\* "Working on demo for (2 minutes)".
C17_DemoMessagesWithFor ==
  \A i \in Made :
     /\ FirstPushAt0(i) => svcs[i].message = "Working on demo"
     /\ PushAt2(i) => svcs[i].message = "Working on demo for (2 minutes)"

C17_Witness == \E i \in Made : PushAt2(i)

\* the duration as the claim renders N whole minutes
Unit(n, unit) == ToString(n) \o " " \o unit \o (IF n > 1 THEN "s" ELSE "")
Rendered(N) ==
  IF N < 60
  THEN "(" \o Unit(N, "minute") \o ")"
  ELSE "(" \o Unit(N \div 60, "hour") \o " " \o Unit(N % 60, "minute") \o ")"

\* C18: a scheduled push N whole minutes into the session renders N in
\* minutes only when N < 60 and as hours plus minutes when N >= 60 (N = 60 as
\* 1 hour 0 minute), with "s" exactly for counts above 1.
C18_DurationRendering ==
  \A i \in Made :
     (last.op = "timer" /\ last.svc = i /\ last.push = "active") =>
        svcs[i].message =
          Message(Workspace, svcs[i].language, Rendered(svcs[i].elapsed))

\* C19: a load that reads a populated cache record whose age is 24 hours or
\* more treats it as expired and calls the remote directory.
C19_ExpiredFrom24Hours ==
  [][\A i \in SvcIds :
       (Begins(i) /\ Populated /\ ReadOk(i) /\ now - store.stamp >= maxAge)
          => loads'[i].remote]_vars

\* the current instance is idle, nothing has been deactivated since the last
\* start, and a listener runs
ResumeStep ==
  /\ halted = "no"
  /\ gitHubService # 0
  /\ svcs[gitHubService].isIdle
  /\ last'.op = "activity"

\* the updateStatus that a resume of the current instance called comes back
\* from the emoji prompt and runs on to its push
ResumeAnswered ==
  /\ halted = "no"
  /\ last'.op = "answered"
  /\ last'.svc = gitHubService
  /\ \E p \in pending \ pending' : p.kind = "resume"

\* after the step an active status has just been sent and a timer of the
\* current instance is live and due within one interval
GoesActive ==
  /\ last'.push = "active"
  /\ ~svcs'[gitHubService].isIdle
  /\ \E t \in timers' :
        /\ t.svc = gitHubService
        /\ t.due <= now' + svcs'[gitHubService].expires

\* the prompt is answered before the idle threshold has passed again
InTime ==
  /\ ~svcs[gitHubService].isIdle
  /\ MinutesDiff(now, svcs[gitHubService].lastActivity) < svcs[gitHubService].idleTimeout

\* C20 as stated: an activity event on the idle, not deactivated synchronizer
\* has an active status pushed and leaves a push timer live, whether the
\* push is made in the listener or, with no emoji configured, when the emoji
\* prompt the listener opened is answered.
C20_ResumeGoesActive ==
  [][/\ (ResumeStep /\ settings.emoji) => GoesActive
     /\ ResumeAnswered => GoesActive]_vars

\* C20 as the code has it: with an emoji configured the listener pushes an
\* active status and a timer is live afterwards; with none the listener
\* clears the idle flag and opens the prompt, and the answer pushes an active
\* status with a live timer if it comes before the idle threshold has passed
\* again, and pushes no active status otherwise.
C20_ResumeGoesActiveIfAnsweredInTime ==
  [][/\ (ResumeStep /\ settings.emoji) => GoesActive
     /\ (ResumeStep /\ ~settings.emoji) =>
           /\ ~svcs'[gitHubService].isIdle
           /\ \E p \in pending' :
                 p.kind = "resume" /\ p.svc = gitHubService /\ p.push = "prompt"
     /\ (ResumeAnswered /\ InTime) => GoesActive
     /\ (ResumeAnswered /\ ~InTime) =>
           last'.push \in {"idle", "none"} /\ svcs'[gitHubService].isIdle]_vars

\* C20 witness: the start went directly to Idle (it returned no timer, so
\* interval is empty while the extension is active), then an activity event
\* resumed the instance: an active status has just been sent and a timer of
\* the instance is live.
C20_Witness ==
  /\ halted = "no"
  /\ isActive
  /\ interval = 0
  /\ gitHubService # 0
  /\ last.op \in {"activity", "answered"}
  /\ last.push = "active"
  /\ ~svcs[gitHubService].isIdle
  /\ \E t \in timers : t.svc = gitHubService

\* C21: once a deactivation has completed, with nothing started or activated
\* after it, an activity event sends nothing to the sink and arms no timer,
\* also for an instance that was idle when it was deactivated.
C21_ActivityInertAfterDeactivate ==
  [][(deactivated /\ last'.op = "activity") =>
        (last'.push = "none" /\ pending' = pending /\ timers' \subseteq timers)]_vars

\* the prompts that a start (activation, restart) or the activate command
\* has open
StartPrompts == {p \in pending : p.kind \in {"start", "activate"} /\ p.push = "prompt"}

\* C22: whenever a start opens the emoji prompt, the catalog load of the
\* instance has completed and the list offered is not empty.
C22_PromptOffersLoadedCatalog ==
  \A p \in StartPrompts : p.offered # {}

====
